---- MODULE Spec2Model ----
(***************************************************************************)
(* Lifecycle of the PSPDFKit viewer components of pspdfkit-web-example-vue. *)
(*                                                                         *)
(* The repository holds three viewer components, each mounted by its own   *)
(* host page; a run of the model is a run of one of them (variant):        *)
(*   "vue2"   src/components/PSPDFKitContainer.vue under src/App.vue       *)
(*   "vue3"   the PSPDFKit component with a beforeUnmount hook             *)
(*   "legacy" the `pspdfkit` component of the single-page example and its  *)
(*            root Vue instance                                            *)
(* The viewer service (PSPDFKit.load / PSPDFKit.unload) is vendored as     *)
(* declarations only; its behaviour is modelled from the specification.    *)
(***************************************************************************)
EXTENDS Integers, Sequences, FiniteSets, TLC

VARIABLES
    variant,      \* which of the three components this run mounts
    phase,        \* "created" | "mounted" | "destroyed": the component's lifecycle
    pdfFile,      \* App.vue data.pdfFile (vue2 / vue3 host)
    documentUrl,  \* legacy root instance data.documentUrl
    errorMsg,     \* legacy root instance data.errorMsg
    prop,         \* the document prop as the component last saw it
    _instance,    \* legacy component's this._instance (NoInstance = not set / null)
    valid,        \* document references the viewer service is able to load
    blobs,        \* number of object URLs created so far
    revoked,      \* object URLs released with revokeObjectURL
    pending,      \* viewer service: loads in flight
    live,         \* viewer service: live Instances
    nextId,       \* viewer service: identity of the next load / Instance
    calls,        \* history of the PSPDFKit.load / PSPDFKit.unload calls made
    emits,        \* history of the component's $emit calls
    settled,      \* history of the loads that resolved or rejected
    annotated,    \* live Instances that received an annotation from a component
    scriptPc,     \* copy script: number of its ncp calls made so far
    todo,         \* copy script: per copy, the files not yet written
    errs,         \* copy script: per copy, the files whose copy failed
    called,       \* copy script: the copies whose callback has run
    console,      \* copy script: what console.error has logged
    number,       \* locale data: the number given to the plural-rule function
    ordinal,      \* locale data: whether the ordinal category is asked for
    category      \* locale data: the category returned ("" before the call)

vars == <<variant, phase, pdfFile, documentUrl, errorMsg, prop, _instance, valid,
          blobs, revoked, pending, live, nextId, calls, emits, settled, annotated,
          scriptPc, todo, errs, called, console, number, ordinal, category>>

hostVars == <<pdfFile, documentUrl, blobs, revoked, valid>>

\* The viewer components, their hosts and the viewer service.
viewerVars == <<variant, phase, pdfFile, documentUrl, errorMsg, prop, _instance, valid,
                blobs, revoked, pending, live, nextId, calls, emits, settled, annotated>>

\* The copy script.
scriptVars == <<scriptPc, todo, errs, called, console>>

\* The vendored locale data.
localeVars == <<number, ordinal, category>>

\* What no step of a viewer component or its host touches.
toolVars == <<scriptVars, localeVars>>

(***************************************************************************)
(* Bounds                                                                  *)
(***************************************************************************)
\* Number of files the user may pick in one run.
MaxFiles == 2

\* Number of files in the SDK's library directory.
MaxLibFiles == 3

\* The plural-rule function is given every integer up to MaxSmall, and every
\* m * 10^z with m up to MaxMantissa and z up to MaxZeros; each of these is a
\* value a JavaScript number holds exactly.
MaxSmall == 125

MaxMantissa == 15

MaxZeros == 20

(***************************************************************************)
(* Values                                                                  *)
(***************************************************************************)
Variants == {"vue2", "vue3", "legacy"}

NoInstance == 0

\* The container selector each component passes to the viewer service.
PdfContainer == ".pdf-container"

LegacyContainer == ".container"

Container == IF variant = "legacy" THEN LegacyContainer ELSE PdfContainer

\* The n-th object URL window.URL.createObjectURL returns.
BlobUrl(n) == "blob:" \o ToString(n)

IsBlob(url) == \E n \in 1..blobs : url = BlobUrl(n)

\* What the user hands to the file input: no file, a PDF, or an unreadable file.
Files == {"none", "pdf", "bad"}

(***************************************************************************)
(* Viewer service (modelled from the specification)                        *)
(***************************************************************************)
SelectorTarget(sel) == [kind |-> "selector", container |-> sel, instance |-> NoInstance]

InstanceTarget(id) == [kind |-> "instance", container |-> "", instance |-> id]

\* The live Instances an unload target denotes.
Matching(lv, target) ==
    IF target.kind = "selector"
    THEN {i \in lv : i.container = target.container}
    ELSE {i \in lv : i.id = target.instance}

\* unload(target) -> boolean: releases what is bound to the target, and tells
\* whether anything was released; nothing bound is not an error.
PSPDFKitUnload(lv, target) ==
    [live |-> lv \ Matching(lv, target), ret |-> Matching(lv, target) # {}]

\* load(configuration) -> Promise<Instance>: a load in flight; `by` names the
\* caller whose continuation hangs on the promise.
PSPDFKitLoad(configuration, by) ==
    [id |-> nextId, document |-> configuration.document,
     container |-> configuration.container, by |-> by]

\* The Instance a load resolves with.
InstanceOf(l) == [id |-> l.id, document |-> l.document, container |-> l.container]

\* The message of the error a load rejects with.
ErrorMessage(l) == "document not found: " \o l.document

\* A load of a loadable document resolves, any other load rejects.
Resolves(l) == l \in pending /\ l.document \in valid

Rejects(l) == l \in pending /\ l.document \notin valid

LiveOn(c) == {i \in live : i.container = c}

LiveIds == {i.id : i \in live}

PendingIds == {l.id : l \in pending}

(***************************************************************************)
(* Histories                                                               *)
(***************************************************************************)
UnloadCall(target, c, ret) ==
    [op |-> "unload", container |-> c, target |-> target.kind,
     instance |-> target.instance, document |-> "", id |-> 0, ret |-> ret]

LoadCall(l) ==
    [op |-> "load", container |-> l.container, target |-> "",
     instance |-> NoInstance, document |-> l.document, id |-> l.id, ret |-> TRUE]

\* this.$emit(event, payload); a destroyed (Vue 2) or unmounted (Vue 3)
\* component has no listeners left, so the host's handler no longer runs.
Emit(event, inst, message, of) ==
    [event |-> event, instance |-> inst, message |-> message, of |-> of,
     delivered |-> phase # "destroyed"]

Settled(l, outcome) ==
    [id |-> l.id, document |-> l.document, by |-> l.by, outcome |-> outcome,
     torn |-> phase = "destroyed"]

(***************************************************************************)
(* Initial state: the host's data() has run, the component is created      *)
(***************************************************************************)
\* The copies the script makes into public/js: the SDK's library directory and
\* its entry script.
LibCopy == "nutrient-viewer-lib"

EntryCopy == "nutrient-viewer.js"

Copies == {LibCopy, EntryCopy}

\* The script has not run.
ScriptNotRun ==
    /\ scriptPc = 0
    /\ todo = [c \in Copies |-> {}]
    /\ errs = [c \in Copies |-> {}]
    /\ called = {}
    /\ console = <<>>

\* The plural-rule function has not been given a number.
NoNumber ==
    /\ number = [mant |-> 0, zeros |-> 0]
    /\ ordinal = FALSE
    /\ category = ""

\* A page of the example as its data() leaves it, before the component mounts.
ViewerInit ==
    /\ variant \in Variants
    /\ phase = "created"
    /\ pdfFile = "/example.pdf"
    /\ documentUrl = "example.pdf"
    /\ errorMsg = ""
    /\ prop = IF variant = "legacy" THEN documentUrl ELSE pdfFile
    /\ _instance = NoInstance
    /\ valid \in SUBSET {prop}
    /\ blobs = 0
    /\ revoked = {}
    /\ pending = {}
    /\ live = {}
    /\ nextId = 1
    /\ calls = <<>>
    /\ emits = <<>>
    /\ settled = {}
    /\ annotated = {}

Init == ViewerInit /\ ScriptNotRun /\ NoNumber

(***************************************************************************)
(* Host of the vue2 / vue3 components: src/App.vue                         *)
(***************************************************************************)
\* openDocument() as it would be without the revokeObjectURL call.
OpenDocumentNoRevoke(file) ==
    /\ variant # "legacy"
    /\ file # "none"
    /\ blobs < MaxFiles
    /\ pdfFile' = BlobUrl(blobs + 1)
    /\ blobs' = blobs + 1
    /\ valid' = IF file = "pdf" THEN valid \cup {BlobUrl(blobs + 1)} ELSE valid
    /\ UNCHANGED <<toolVars, annotated, variant, phase, documentUrl, errorMsg, prop, _instance, revoked,
                   pending, live, nextId, calls, emits, settled>>

\* openDocument(): release the current reference, then take the picked file
\* as the new one. createObjectURL raises when the event carries no file, and
\* the assignment is then never reached.
OpenDocument(file) ==
    /\ variant # "legacy"
    /\ file # "none" => blobs < MaxFiles
    /\ revoked' = IF pdfFile # "" /\ IsBlob(pdfFile) THEN revoked \cup {pdfFile}
                  ELSE revoked
    /\ IF file = "none"
       THEN UNCHANGED <<pdfFile, blobs, valid>>
       ELSE /\ pdfFile' = BlobUrl(blobs + 1)
            /\ blobs' = blobs + 1
            /\ valid' = IF file = "pdf" THEN valid \cup {BlobUrl(blobs + 1)} ELSE valid
    /\ UNCHANGED <<toolVars, annotated, variant, phase, documentUrl, errorMsg, prop, _instance,
                   pending, live, nextId, calls, emits, settled>>

(***************************************************************************)
(* PSPDFKitContainer.vue (Vue 2)                                           *)
(***************************************************************************)
\* loadPSPDFKit() as it would be without its first statement: the load is
\* issued over whatever the container holds.
Vue2LoadPSPDFKitNoUnload(by) ==
    LET l == PSPDFKitLoad([document |-> prop', container |-> PdfContainer], by)
    IN  /\ live' = live
        /\ pending' = pending \cup {l}
        /\ nextId' = nextId + 1
        /\ calls' = Append(calls, LoadCall(l))

\* loadPSPDFKit(): unload the container, then load this.pdfFile into it.
Vue2LoadPSPDFKit(by) ==
    LET u == PSPDFKitUnload(live, SelectorTarget(PdfContainer))
        l == PSPDFKitLoad([document |-> prop', container |-> PdfContainer], by)
    IN  /\ live' = u.live
        /\ pending' = pending \cup {l}
        /\ nextId' = nextId + 1
        /\ calls' = calls \o <<UnloadCall(SelectorTarget(PdfContainer), PdfContainer, u.ret),
                               LoadCall(l)>>

\* mounted(): this.loadPSPDFKit().then(...)
Vue2Mounted ==
    /\ variant = "vue2"
    /\ phase = "created"
    /\ phase' = "mounted"
    /\ prop' = pdfFile
    /\ Vue2LoadPSPDFKit("mounted")
    /\ UNCHANGED <<toolVars, annotated, variant, errorMsg, _instance, emits, settled>>
    /\ UNCHANGED hostVars

\* The body of watch.pdfFile(val) as it would be without its test of val.
Vue2PdfFileUnguarded(val) == Vue2LoadPSPDFKit("watch")

\* The body of watch.pdfFile(val): if (val) { this.loadPSPDFKit() }
Vue2PdfFile(val) ==
    IF val # ""
    THEN Vue2LoadPSPDFKit("watch")
    ELSE UNCHANGED <<live, pending, nextId, calls>>

\* watch.pdfFile(val): the prop changed; a non-empty value is loaded.
Vue2WatchPdfFile ==
    /\ variant = "vue2"
    /\ phase = "mounted"
    /\ prop # pdfFile
    /\ prop' = pdfFile
    /\ Vue2PdfFile(pdfFile)
    /\ UNCHANGED <<toolVars, annotated, variant, phase, errorMsg, _instance, emits, settled>>
    /\ UNCHANGED hostVars

\* The onPress handler as it would be on the PSPDFKitContainer's then handler:
\* the Instance received is annotated before it is forwarded.
Vue2MountedThenAnnotating(l) ==
    /\ variant = "vue2"
    /\ l.by = "mounted"
    /\ Resolves(l)
    /\ pending' = pending \ {l}
    /\ live' = live \cup {InstanceOf(l)}
    /\ annotated' = annotated \cup {l.id}
    /\ emits' = Append(emits, Emit("loaded", l.id, "", l.id))
    /\ settled' = settled \cup {Settled(l, "resolved")}
    /\ UNCHANGED <<toolVars, variant, phase, errorMsg, prop, _instance, nextId, calls>>
    /\ UNCHANGED hostVars

\* mounted() as it would be with the continuation left out: the load resolves
\* and the host is never told.
Vue2MountedThenSilent(l) ==
    /\ variant = "vue2"
    /\ Resolves(l)
    /\ l.by = "mounted"
    /\ pending' = pending \ {l}
    /\ live' = live \cup {InstanceOf(l)}
    /\ settled' = settled \cup {Settled(l, "resolved")}
    /\ UNCHANGED <<toolVars, annotated, variant, phase, errorMsg, prop, _instance, nextId, calls, emits>>
    /\ UNCHANGED hostVars

\* The continuation of mounted(): .then((instance) => this.$emit("loaded", instance))
Vue2MountedThen(l) ==
    /\ variant = "vue2"
    /\ Resolves(l)
    /\ l.by = "mounted"
    /\ pending' = pending \ {l}
    /\ live' = live \cup {InstanceOf(l)}
    /\ emits' = Append(emits, Emit("loaded", l.id, "", l.id))
    /\ settled' = settled \cup {Settled(l, "resolved")}
    /\ UNCHANGED <<toolVars, annotated, variant, phase, errorMsg, prop, _instance, nextId, calls>>
    /\ UNCHANGED hostVars

\* mounted() attaches no rejection handler: a rejected load goes unhandled.
Vue2MountedRejected(l) ==
    /\ variant = "vue2"
    /\ Rejects(l)
    /\ l.by = "mounted"
    /\ pending' = pending \ {l}
    /\ settled' = settled \cup {Settled(l, "rejected")}
    /\ UNCHANGED <<toolVars, annotated, variant, phase, errorMsg, prop, _instance, live, nextId, calls, emits>>
    /\ UNCHANGED hostVars

\* The watcher drops the promise of loadPSPDFKit(): nothing runs when it settles.
Vue2WatchSettled(l) ==
    /\ variant = "vue2"
    /\ l \in pending
    /\ l.by = "watch"
    /\ pending' = pending \ {l}
    /\ IF Resolves(l)
       THEN /\ live' = live \cup {InstanceOf(l)}
            /\ settled' = settled \cup {Settled(l, "resolved")}
       ELSE /\ live' = live
            /\ settled' = settled \cup {Settled(l, "rejected")}
    /\ UNCHANGED <<toolVars, annotated, variant, phase, errorMsg, prop, _instance, nextId, calls, emits>>
    /\ UNCHANGED hostVars

\* beforeDestroy() as it would be if the cleanup also told the host about it.
Vue2BeforeDestroyEmitting ==
    /\ variant = "vue2"
    /\ phase = "mounted"
    /\ phase' = "destroyed"
    /\ LET u == PSPDFKitUnload(live, SelectorTarget(PdfContainer))
       IN  /\ live' = u.live
           /\ calls' = Append(calls, UnloadCall(SelectorTarget(PdfContainer), PdfContainer, u.ret))
    /\ emits' = Append(emits, Emit("loaded", NoInstance, "", NoInstance))
    /\ UNCHANGED <<toolVars, annotated, variant, errorMsg, prop, _instance, pending, nextId, settled>>
    /\ UNCHANGED hostVars

\* beforeDestroy(): PSPDFKit.unload(".pdf-container")
Vue2BeforeDestroy ==
    /\ variant = "vue2"
    /\ phase = "mounted"
    /\ phase' = "destroyed"
    /\ LET u == PSPDFKitUnload(live, SelectorTarget(PdfContainer))
       IN  /\ live' = u.live
           /\ calls' = Append(calls, UnloadCall(SelectorTarget(PdfContainer), PdfContainer, u.ret))
    /\ UNCHANGED <<toolVars, annotated, variant, errorMsg, prop, _instance, pending, nextId, emits, settled>>
    /\ UNCHANGED hostVars

(***************************************************************************)
(* PSPDFKit component with a beforeUnmount hook (Vue 3)                    *)
(***************************************************************************)
\* loadPSPDFKit(): unload the container, then load this.pdfFile into it.
Vue3LoadPSPDFKit(by) ==
    LET u == PSPDFKitUnload(live, SelectorTarget(PdfContainer))
        l == PSPDFKitLoad([document |-> prop', container |-> PdfContainer], by)
    IN  /\ live' = u.live
        /\ pending' = pending \cup {l}
        /\ nextId' = nextId + 1
        /\ calls' = calls \o <<UnloadCall(SelectorTarget(PdfContainer), PdfContainer, u.ret),
                               LoadCall(l)>>

\* mounted(): this.loadPSPDFKit().then(...)
Vue3Mounted ==
    /\ variant = "vue3"
    /\ phase = "created"
    /\ phase' = "mounted"
    /\ prop' = pdfFile
    /\ Vue3LoadPSPDFKit("mounted")
    /\ UNCHANGED <<toolVars, annotated, variant, errorMsg, _instance, emits, settled>>
    /\ UNCHANGED hostVars

\* The body of watch.pdfFile(val): if (val) { this.loadPSPDFKit() }
Vue3PdfFile(val) ==
    IF val # ""
    THEN Vue3LoadPSPDFKit("watch")
    ELSE UNCHANGED <<live, pending, nextId, calls>>

\* watch.pdfFile(val): the prop changed; a non-empty value is loaded.
Vue3WatchPdfFile ==
    /\ variant = "vue3"
    /\ phase = "mounted"
    /\ prop # pdfFile
    /\ prop' = pdfFile
    /\ Vue3PdfFile(pdfFile)
    /\ UNCHANGED <<toolVars, annotated, variant, phase, errorMsg, _instance, emits, settled>>
    /\ UNCHANGED hostVars

\* The continuation of mounted(): .then((instance) => this.$emit("loaded", instance))
Vue3MountedThen(l) ==
    /\ variant = "vue3"
    /\ Resolves(l)
    /\ l.by = "mounted"
    /\ pending' = pending \ {l}
    /\ live' = live \cup {InstanceOf(l)}
    /\ emits' = Append(emits, Emit("loaded", l.id, "", l.id))
    /\ settled' = settled \cup {Settled(l, "resolved")}
    /\ UNCHANGED <<toolVars, annotated, variant, phase, errorMsg, prop, _instance, nextId, calls>>
    /\ UNCHANGED hostVars

\* mounted() attaches no rejection handler: a rejected load goes unhandled.
Vue3MountedRejected(l) ==
    /\ variant = "vue3"
    /\ Rejects(l)
    /\ l.by = "mounted"
    /\ pending' = pending \ {l}
    /\ settled' = settled \cup {Settled(l, "rejected")}
    /\ UNCHANGED <<toolVars, annotated, variant, phase, errorMsg, prop, _instance, live, nextId, calls, emits>>
    /\ UNCHANGED hostVars

\* The watcher drops the promise of loadPSPDFKit(): nothing runs when it settles.
Vue3WatchSettled(l) ==
    /\ variant = "vue3"
    /\ l \in pending
    /\ l.by = "watch"
    /\ pending' = pending \ {l}
    /\ IF Resolves(l)
       THEN /\ live' = live \cup {InstanceOf(l)}
            /\ settled' = settled \cup {Settled(l, "resolved")}
       ELSE /\ live' = live
            /\ settled' = settled \cup {Settled(l, "rejected")}
    /\ UNCHANGED <<toolVars, annotated, variant, phase, errorMsg, prop, _instance, nextId, calls, emits>>
    /\ UNCHANGED hostVars

\* beforeUnmount() as it would be if the hook made no unload call.
Vue3BeforeUnmountNoUnload ==
    /\ variant = "vue3"
    /\ phase = "mounted"
    /\ phase' = "destroyed"
    /\ UNCHANGED <<toolVars, annotated, variant, errorMsg, prop, _instance, pending, live, nextId,
                   calls, emits, settled>>
    /\ UNCHANGED hostVars

\* beforeUnmount(): PSPDFKit.unload(".pdf-container")
Vue3BeforeUnmount ==
    /\ variant = "vue3"
    /\ phase = "mounted"
    /\ phase' = "destroyed"
    /\ LET u == PSPDFKitUnload(live, SelectorTarget(PdfContainer))
       IN  /\ live' = u.live
           /\ calls' = Append(calls, UnloadCall(SelectorTarget(PdfContainer), PdfContainer, u.ret))
    /\ UNCHANGED <<toolVars, annotated, variant, errorMsg, prop, _instance, pending, nextId, emits, settled>>
    /\ UNCHANGED hostVars

(***************************************************************************)
(* Legacy single-page example: the root Vue instance                       *)
(***************************************************************************)
\* openDocument(event) of the root instance.
LegacyOpenDocument(file) ==
    /\ variant = "legacy"
    /\ file # "none" => blobs < MaxFiles
    /\ revoked' = IF documentUrl # "" /\ IsBlob(documentUrl)
                  THEN revoked \cup {documentUrl}
                  ELSE revoked
    /\ IF file = "none"
       THEN UNCHANGED <<documentUrl, blobs, valid>>
       ELSE /\ documentUrl' = BlobUrl(blobs + 1)
            /\ blobs' = blobs + 1
            /\ valid' = IF file = "pdf" THEN valid \cup {BlobUrl(blobs + 1)} ELSE valid
    /\ UNCHANGED <<toolVars, annotated, variant, phase, pdfFile, errorMsg, prop, _instance,
                   pending, live, nextId, calls, emits, settled>>

\* @update:error="errorMsg = $event": the handler runs while the component
\* still has its listeners.
UpdateError(e) == IF e.delivered THEN e.message ELSE errorMsg

\* The handler as it would be if an error also fell back to the default
\* document.
HandleUpdateErrorReset(e) ==
    /\ errorMsg' = UpdateError(e)
    /\ documentUrl' = IF e.delivered /\ e.message # "" THEN "example.pdf" ELSE documentUrl
    /\ UNCHANGED <<pdfFile, blobs, revoked, valid>>

\* The root instance's whole reaction to the event: one assignment to errorMsg.
HandleUpdateError(e) ==
    /\ errorMsg' = UpdateError(e)
    /\ UNCHANGED hostVars

(***************************************************************************)
(* Legacy single-page example: the `pspdfkit` component                    *)
(***************************************************************************)
\* methods.load(): PSPDFKit.load({document: this.documentUrl, container: ".container", ...})
LegacyLoad(lv, cs, by) ==
    LET l == PSPDFKitLoad([document |-> prop', container |-> LegacyContainer], by)
    IN  /\ live' = lv
        /\ pending' = pending \cup {l}
        /\ nextId' = nextId + 1
        /\ calls' = Append(cs, LoadCall(l))

\* An unloaded Instance is gone, and the annotations made through it with it.
AnnotatedIn(lv) == {n \in annotated : \E i \in lv : i.id = n}

\* methods.unload() as it would be without its guard.
LegacyUnloadUnguarded ==
    [live |-> PSPDFKitUnload(live, InstanceTarget(_instance)).live,
     instance |-> NoInstance,
     calls |-> <<UnloadCall(InstanceTarget(_instance), LegacyContainer,
                            PSPDFKitUnload(live, InstanceTarget(_instance)).ret)>>]

\* methods.unload(): only a stored Instance is unloaded, and then forgotten.
LegacyUnload ==
    IF _instance # NoInstance
    THEN [live |-> PSPDFKitUnload(live, InstanceTarget(_instance)).live,
          instance |-> NoInstance,
          calls |-> <<UnloadCall(InstanceTarget(_instance), LegacyContainer,
                                 PSPDFKitUnload(live, InstanceTarget(_instance)).ret)>>]
    ELSE [live |-> live, instance |-> _instance, calls |-> <<>>]

\* mounted(): this.load()
LegacyMounted ==
    /\ variant = "legacy"
    /\ phase = "created"
    /\ phase' = "mounted"
    /\ prop' = documentUrl
    /\ LegacyLoad(live, calls, "mounted")
    /\ UNCHANGED <<toolVars, annotated, variant, errorMsg, _instance, emits, settled>>
    /\ UNCHANGED hostVars

\* watch.documentUrl(): this.unload(); this.load()
LegacyWatchDocumentUrl ==
    /\ variant = "legacy"
    /\ phase = "mounted"
    /\ prop # documentUrl
    /\ prop' = documentUrl
    /\ _instance' = LegacyUnload.instance
    /\ LegacyLoad(LegacyUnload.live, calls \o LegacyUnload.calls, "watch")
    /\ UNCHANGED <<toolVars, variant, phase, errorMsg, emits, settled>>
    /\ UNCHANGED hostVars
    /\ annotated' = AnnotatedIn(live')

\* .then(instance => { this._instance = instance; this.$emit("update:error", "") })
\* The then handler as it would be without its $emit.
LegacyLoadThenSilent(l) ==
    /\ variant = "legacy"
    /\ Resolves(l)
    /\ pending' = pending \ {l}
    /\ live' = live \cup {InstanceOf(l)}
    /\ _instance' = l.id
    /\ settled' = settled \cup {Settled(l, "resolved")}
    /\ UNCHANGED <<toolVars, annotated, variant, phase, prop, nextId, calls, emits, errorMsg>>
    /\ UNCHANGED hostVars

\* The then handler as it would be if an Instance already stored were kept.
LegacyLoadThenKeepFirst(l) ==
    /\ variant = "legacy"
    /\ Resolves(l)
    /\ pending' = pending \ {l}
    /\ live' = live \cup {InstanceOf(l)}
    /\ _instance' = IF _instance = NoInstance THEN l.id ELSE _instance
    /\ emits' = Append(emits, Emit("update:error", NoInstance, "", l.id))
    /\ HandleUpdateError(Emit("update:error", NoInstance, "", l.id))
    /\ settled' = settled \cup {Settled(l, "resolved")}
    /\ UNCHANGED <<toolVars, annotated, variant, phase, prop, nextId, calls>>

LegacyLoadThen(l) ==
    /\ variant = "legacy"
    /\ Resolves(l)
    /\ pending' = pending \ {l}
    /\ live' = live \cup {InstanceOf(l)}
    /\ _instance' = l.id
    /\ emits' = Append(emits, Emit("update:error", NoInstance, "", l.id))
    /\ HandleUpdateError(Emit("update:error", NoInstance, "", l.id))
    /\ settled' = settled \cup {Settled(l, "resolved")}
    /\ UNCHANGED <<toolVars, annotated, variant, phase, prop, nextId, calls>>

\* The catch handler as it would be if it tried the load again by itself.
LegacyLoadCatchRetry(l) ==
    /\ variant = "legacy"
    /\ Rejects(l)
    /\ LET u == PSPDFKitUnload(live, SelectorTarget(LegacyContainer))
           again == PSPDFKitLoad([document |-> prop, container |-> LegacyContainer], l.by)
       IN  /\ live' = u.live
           /\ pending' = (pending \ {l}) \cup {again}
           /\ nextId' = nextId + 1
           /\ calls' = calls \o <<UnloadCall(SelectorTarget(LegacyContainer),
                                             LegacyContainer, u.ret),
                                  LoadCall(again)>>
    /\ emits' = Append(emits, Emit("update:error", NoInstance, ErrorMessage(l), l.id))
    /\ HandleUpdateError(Emit("update:error", NoInstance, ErrorMessage(l), l.id))
    /\ settled' = settled \cup {Settled(l, "rejected")}
    /\ UNCHANGED <<toolVars, variant, phase, prop, _instance>>
    /\ annotated' = AnnotatedIn(live')

\* .catch(err => { PSPDFKit.unload(".container"); this.$emit("update:error", err.message) })
LegacyLoadCatch(l) ==
    /\ variant = "legacy"
    /\ Rejects(l)
    /\ pending' = pending \ {l}
    /\ LET u == PSPDFKitUnload(live, SelectorTarget(LegacyContainer))
       IN  /\ live' = u.live
           /\ calls' = Append(calls, UnloadCall(SelectorTarget(LegacyContainer),
                                                LegacyContainer, u.ret))
    /\ emits' = Append(emits, Emit("update:error", NoInstance, ErrorMessage(l), l.id))
    /\ HandleUpdateError(Emit("update:error", NoInstance, ErrorMessage(l), l.id))
    /\ settled' = settled \cup {Settled(l, "rejected")}
    /\ UNCHANGED <<toolVars, variant, phase, prop, _instance, nextId>>
    /\ annotated' = AnnotatedIn(live')

\* toolbarItems[0].onPress: the user presses "Random rectangle" in the viewer
\* bound to the container.  The handler reads this._instance: with none
\* stored pageInfoForIndex throws and nothing happens; otherwise it calls
\* this._instance.create(new RectangleAnnotation(...)).
LegacyOnPress ==
    /\ variant = "legacy"
    /\ LiveOn(LegacyContainer) # {}
    /\ annotated' = IF _instance \in LiveIds THEN annotated \cup {_instance}
                    ELSE annotated
    /\ UNCHANGED <<toolVars, variant, phase, errorMsg, prop, _instance, pending, live, nextId,
                   calls, emits, settled>>
    /\ UNCHANGED hostVars

\* beforeDestroy(): this.unload()
LegacyBeforeDestroy ==
    /\ variant = "legacy"
    /\ phase = "mounted"
    /\ phase' = "destroyed"
    /\ live' = LegacyUnload.live
    /\ _instance' = LegacyUnload.instance
    /\ calls' = calls \o LegacyUnload.calls
    /\ UNCHANGED <<toolVars, variant, errorMsg, prop, pending, nextId, emits, settled>>
    /\ UNCHANGED hostVars
    /\ annotated' = AnnotatedIn(live')

Vue2Next ==
    \/ Vue2Mounted
    \/ Vue2WatchPdfFile
    \/ \E l \in pending : Vue2MountedThen(l)
    \/ \E l \in pending : Vue2MountedRejected(l)
    \/ \E l \in pending : Vue2WatchSettled(l)
    \/ Vue2BeforeDestroy

Vue3Next ==
    \/ Vue3Mounted
    \/ Vue3WatchPdfFile
    \/ \E l \in pending : Vue3MountedThen(l)
    \/ \E l \in pending : Vue3MountedRejected(l)
    \/ \E l \in pending : Vue3WatchSettled(l)
    \/ Vue3BeforeUnmount

LegacyNext ==
    \/ LegacyMounted
    \/ LegacyWatchDocumentUrl
    \/ \E l \in pending : LegacyLoadThen(l)
    \/ \E l \in pending : LegacyLoadCatch(l)
    \/ LegacyOnPress
    \/ LegacyBeforeDestroy

\* A load in flight settles and its continuation runs.
Settle ==
    \/ \E l \in pending : Vue2MountedThen(l)
    \/ \E l \in pending : Vue2MountedRejected(l)
    \/ \E l \in pending : Vue2WatchSettled(l)
    \/ \E l \in pending : Vue3MountedThen(l)
    \/ \E l \in pending : Vue3MountedRejected(l)
    \/ \E l \in pending : Vue3WatchSettled(l)
    \/ \E l \in pending : LegacyLoadThen(l)
    \/ \E l \in pending : LegacyLoadCatch(l)

Next ==
    \/ \E file \in Files : OpenDocument(file)
    \/ \E file \in Files : LegacyOpenDocument(file)
    \/ Vue2Next
    \/ Vue3Next
    \/ LegacyNext

Spec == Init /\ [][Next]_vars

\* The viewer service settles every load, and a settled promise's continuation
\* is run by the event loop.
FairSpec == Spec /\ WF_vars(Settle)

(***************************************************************************)
(* The copy script (verify-installation)                                   *)
(*                                                                         *)
(* ncp is not part of the sources: a copy writes its files one by one,     *)
(* goes on after a file fails, and calls back once, with the errors if     *)
(* there were any.  A callback runs only after the script's own statements *)
(* have run to completion.                                                 *)
(***************************************************************************)
\* The files a copy has to write.
FilesOf(c) == IF c = LibCopy THEN 1..MaxLibFiles ELSE {1}

\* ncp(source, destination, callback): the copy is started.
Ncp(c) ==
    /\ todo' = [todo EXCEPT ![c] = FilesOf(c)]
    /\ scriptPc' = scriptPc + 1
    /\ UNCHANGED <<errs, called, console>>
    /\ UNCHANGED <<viewerVars, localeVars>>

\* The script's first statement: ncp of the library directory.
ScriptCopyLib ==
    /\ scriptPc = 0
    /\ Ncp(LibCopy)

\* The script's second statement: ncp of the entry script.
ScriptCopyEntry ==
    /\ scriptPc = 1
    /\ Ncp(EntryCopy)

\* One file of a started copy is written, or fails to be.
CopyFile(c, f, ok) ==
    /\ f \in todo[c]
    /\ todo' = [todo EXCEPT ![c] = @ \ {f}]
    /\ errs' = IF ok THEN errs ELSE [errs EXCEPT ![c] = @ \cup {f}]
    /\ UNCHANGED <<scriptPc, called, console>>
    /\ UNCHANGED <<viewerVars, localeVars>>

\* The callback as it would be if it logged nothing.
NcpCallbackSilent(c) ==
    /\ scriptPc = 2
    /\ c \notin called
    /\ todo[c] = {}
    /\ called' = called \cup {c}
    /\ UNCHANGED <<scriptPc, todo, errs, console>>
    /\ UNCHANGED <<viewerVars, localeVars>>

\* (err) => { err && console.error(err); }
NcpCallback(c) ==
    /\ scriptPc = 2
    /\ c \notin called
    /\ todo[c] = {}
    /\ called' = called \cup {c}
    /\ console' = IF errs[c] # {}
                  THEN Append(console, [copy |-> c, err |-> errs[c]])
                  ELSE console
    /\ UNCHANGED <<scriptPc, todo, errs>>
    /\ UNCHANGED <<viewerVars, localeVars>>

BuildInit ==
    /\ ViewerInit
    /\ variant = "vue2"
    /\ valid = {prop}
    /\ ScriptNotRun
    /\ NoNumber

BuildNext ==
    \/ ScriptCopyLib
    \/ ScriptCopyEntry
    \/ \E c \in Copies, f \in 1..MaxLibFiles, ok \in BOOLEAN : CopyFile(c, f, ok)
    \/ \E c \in Copies : NcpCallback(c)

\* node runs the script to its end, the file system finishes what was started
\* and the event loop runs the callbacks.
BuildSpec == BuildInit /\ [][BuildNext]_vars /\ WF_vars(BuildNext)

(***************************************************************************)
(* The vendored locale data for "pl": the plural-rule function             *)
(*                                                                         *)
(* A number is held as [mant, zeros], the integer mant * 10^zeros; a       *)
(* JavaScript string is the sequence of its characters.                    *)
(***************************************************************************)
RECURSIVE Digits(_)
\* The decimal digits of a positive integer, most significant first.
Digits(n) == IF n < 10 THEN <<n>> ELSE Append(Digits(n \div 10), n % 10)

RECURSIVE Zeros(_)
Zeros(z) == IF z = 0 THEN <<>> ELSE <<"0">> \o Zeros(z - 1)

RECURSIVE Significant(_)
\* A digit sequence without its trailing zeros.
Significant(ds) ==
    IF Len(ds) > 1 /\ ds[Len(ds)] = 0 THEN Significant(SubSeq(ds, 1, Len(ds) - 1)) ELSE ds

Chars(ds) == [k \in DOMAIN ds |-> ToString(ds[k])]

\* String(l): plain decimal digits up to 21 of them, and from 22 digits on
\* the exponent form d[.ddd]e+xx with the shortest digits that give the
\* number back.
NumberToString(l) ==
    IF l.mant = 0 THEN <<"0">>
    ELSE LET ds == Digits(l.mant)
             sg == Significant(ds)
             len == Len(ds) + l.zeros
         IN  IF len <= 21
             THEN Chars(ds) \o Zeros(l.zeros)
             ELSE <<ToString(sg[1])>>
                  \o (IF Len(sg) > 1 THEN <<".">> \o Chars(SubSeq(sg, 2, Len(sg))) ELSE <<>>)
                  \o <<"e", "+">> \o Chars(Digits(len - 1))

\* s.split("."): the parts of s between its dots.
RECURSIVE Split(_)
Split(s) ==
    IF \E k \in DOMAIN s : s[k] = "."
    THEN LET k == CHOOSE i \in DOMAIN s : s[i] = "." /\ \A j \in 1..(i - 1) : s[j] # "."
         IN  <<SubSeq(s, 1, k - 1)>> \o Split(SubSeq(s, k + 1, Len(s)))
    ELSE <<s>>

\* s.slice(-k)
SliceLast(s, k) == SubSeq(s, IF Len(s) > k THEN Len(s) - k + 1 ELSE 1, Len(s))

DigitChars == {ToString(d) : d \in 0..9}

NaN == -1

DigitValue(ch) == CHOOSE d \in 0..9 : ToString(d) = ch

\* The number a string of at most two characters is converted to when it is
\* compared with a number: digits give their value, a leading "+" is a sign,
\* anything else is NaN.
ToNumber(s) ==
    IF Len(s) = 1 /\ s[1] \in DigitChars THEN DigitValue(s[1])
    ELSE IF Len(s) = 2 /\ s[1] \in DigitChars /\ s[2] \in DigitChars
         THEN 10 * DigitValue(s[1]) + DigitValue(s[2])
    ELSE IF Len(s) = 2 /\ s[1] = "+" /\ s[2] \in DigitChars THEN DigitValue(s[2])
    ELSE NaN

\* x >= lo && x <= hi; every comparison with NaN is false.
Within(x, lo, hi) == x # NaN /\ x >= lo /\ x <= hi

\* 1 == l, for the number l
IsOne(l) == l.mant = 1 /\ l.zeros = 0

\* 1 != t, for the string t: of the strings String() produces only "1"
\* converts to the number 1.
NotOne(t) == t # <<"1">>

\* fn(l, a) of the "pl" locale data.
PluralRulesFn(l, a) ==
    LET e == Split(NumberToString(l))
        t == e[1]
        n == Len(e) < 2 \/ e[2] = <<>>
        o == ToNumber(SliceLast(t, 1))
        r == ToNumber(SliceLast(t, 2))
    IN  IF a THEN "other"
        ELSE IF IsOne(l) /\ n THEN "one"
        ELSE IF n /\ Within(o, 2, 4) /\ (r # NaN /\ (r < 12 \/ r > 14)) THEN "few"
        ELSE IF \/ n /\ NotOne(t) /\ (o = 0 \/ o = 1)
                \/ n /\ Within(o, 5, 9)
                \/ n /\ Within(r, 12, 14)
             THEN "many"
        ELSE "other"

\* The numbers the function is given.
Numbers ==
    {[mant |-> k, zeros |-> 0] : k \in 0..MaxSmall}
        \cup {[mant |-> m, zeros |-> z] : m \in 1..MaxMantissa, z \in 0..MaxZeros}

PluralInit ==
    /\ ViewerInit
    /\ variant = "vue2"
    /\ valid = {prop}
    /\ ScriptNotRun
    /\ number \in Numbers
    /\ ordinal \in BOOLEAN
    /\ category = ""

\* Intl.PluralRules asks the locale data for the category of the number.
Select ==
    /\ category = ""
    /\ category' = PluralRulesFn(number, ordinal)
    /\ UNCHANGED <<number, ordinal>>
    /\ UNCHANGED <<viewerVars, scriptVars>>

PluralNext == Select

PluralSpec == PluralInit /\ [][PluralNext]_vars

(***************************************************************************)
(* States of ViewerMount, read off the viewer service                      *)
(***************************************************************************)
\* The identities a load can have: the mount's load and one per picked file.
LoadIds == 1..(MaxFiles + 1)

Bound == LiveOn(Container) # {}

Loading == pending # {}

Empty == LiveOn(Container) = {} /\ _instance = NoInstance

\* The host's current DocumentReference.
ActiveDocument == IF variant = "legacy" THEN documentUrl ELSE pdfFile

\* Positions in emits of the loaded notifications the host handled for Instance n.
LoadedFor(n) ==
    {k \in DOMAIN emits : /\ emits[k].event = "loaded"
                          /\ emits[k].instance = n
                          /\ emits[k].delivered}

\* Positions in emits of the error notifications the host handled for load n.
ErrorsFor(n) ==
    {k \in DOMAIN emits : /\ emits[k].event = "update:error"
                          /\ emits[k].of = n
                          /\ emits[k].message # ""
                          /\ emits[k].delivered}

\* This step issues a load.
IssuesLoad == nextId' > nextId

\* This step settles load l.
SettlesLoad(l) == l \in pending /\ l \notin pending'

LastCall(cs) == cs[Len(cs)]

(***************************************************************************)
(* C1                                                                      *)
(***************************************************************************)
\* C1: in every reachable state at most one live Instance is bound to the
\* component's container.
C1_SingleBinding == Cardinality(LiveOn(Container)) <= 1

(***************************************************************************)
(* C2                                                                      *)
(***************************************************************************)
\* C2: once teardown has run and every pending load has settled, no Instance
\* is bound to the container.
C2_TeardownEmpties ==
    (phase = "destroyed" /\ pending = {}) => LiveOn(Container) = {}

(***************************************************************************)
(* C3                                                                      *)
(***************************************************************************)
\* The watcher runs in Bound: the container holds exactly Instance a, loaded
\* from the document the component last saw, and no load is in flight.
SwapFrom(a) ==
    /\ phase = "mounted"
    /\ pending = {}
    /\ LiveOn(Container) = {a}
    /\ a.document = prop
    /\ prop # ActiveDocument
    /\ prop' = ActiveDocument

\* The swap released a with an unload of the container that came right before
\* the load, and the load in flight is the one of the new document.
SwapUnbinds(a) ==
    /\ a \notin live'
    /\ \E l \in pending' :
          /\ pending' = {l}
          /\ l.document = ActiveDocument
          /\ l.container = Container
          /\ Len(calls') = Len(calls) + 2
          /\ calls'[Len(calls) + 1].op = "unload"
          /\ calls'[Len(calls) + 1].ret
          /\ calls'[Len(calls) + 2] = LoadCall(l)

\* The object URLs a run can create.
BlobUrls == {BlobUrl(k) : k \in 1..MaxFiles}

\* Load n of document d, issued by a document change, is in flight, and the
\* viewer service is able to load d.
SwapLoadInFlight(n, d) ==
    \E l \in pending : l.id = n /\ l.document = d /\ l.by = "watch" /\ d \in valid

\* The Instance of load n, loaded from d, is bound to the container.
SwapLoadBound(n, d) ==
    \E i \in LiveOn(Container) : i.id = n /\ i.document = d

\* C3: a document change in Bound with Instance A unbinds A and only then
\* issues the load of the new document; and every load a document change
\* issues for a loadable document leads to Bound with the Instance it yields.
C3_DocumentSwap ==
    /\ [][\A a \in live : SwapFrom(a) => SwapUnbinds(a)]_vars
    /\ \A n \in LoadIds : \A d \in BlobUrls :
          SwapLoadInFlight(n, d) ~> SwapLoadBound(n, d)

\* A swap out of Bound has completed: the last two calls are the unload that
\* released the old Instance and the load whose Instance is now the only one.
C3_Witness ==
    /\ phase = "mounted"
    /\ pending = {}
    /\ Len(calls) >= 3
    /\ calls[Len(calls) - 1].op = "unload"
    /\ calls[Len(calls) - 1].ret
    /\ LastCall(calls).op = "load"
    /\ LiveIds = {LastCall(calls).id}
    /\ \E s \in settled : s.id = LastCall(calls).id /\ s.by = "watch"

(***************************************************************************)
(* C4                                                                      *)
(***************************************************************************)
\* C4: when a load rejects, no Instance is stored and the container is Empty
\* once the rejection has been handled; and a load that resolves afterwards
\* binds its Instance.
C4_RejectLeavesEmpty ==
    [][\A l \in pending :
          /\ (SettlesLoad(l) /\ l.document \notin valid) => Empty'
          /\ (SettlesLoad(l) /\ l.document \in valid) => InstanceOf(l) \in live']_vars

(***************************************************************************)
(* C5                                                                      *)
(***************************************************************************)
\* C5: the rejection of the mount's load reaches the host as exactly one error
\* notification carrying the rejection's message, and as no loaded
\* notification.
C5_MountRejectionSurfaced ==
    \A s \in settled :
        (s.by = "mounted" /\ s.outcome = "rejected") =>
            /\ Cardinality(ErrorsFor(s.id)) = 1
            /\ \A k \in ErrorsFor(s.id) : emits[k].message = ErrorMessage(s)
            /\ LoadedFor(s.id) = {}

(***************************************************************************)
(* C6                                                                      *)
(***************************************************************************)
\* The mount's load of PSPDFKitContainer (either variant) has resolved.
MountResolved(s) ==
    /\ variant # "legacy"
    /\ s.by = "mounted"
    /\ s.outcome = "resolved"

\* C6 as stated: whenever the mount's load resolves with Instance i, the
\* host's handleLoaded runs exactly once with i and no error is notified.
C6_LoadedExactlyOnce ==
    \A s \in settled :
        MountResolved(s) =>
            /\ Cardinality(LoadedFor(s.id)) = 1
            /\ ErrorsFor(s.id) = {}

\* C6 as amended: when the mount's load resolves with Instance i, i is bound
\* to the container; handleLoaded runs exactly once with i if the component
\* has not been torn down by then, and not at all if it has; no error is
\* notified for that load.
C6_LoadedOnceWhileMounted ==
    /\ [](\A s \in settled :
            MountResolved(s) =>
                /\ Cardinality(LoadedFor(s.id)) = (IF s.torn THEN 0 ELSE 1)
                /\ ErrorsFor(s.id) = {})
    /\ [][\A l \in pending :
            (variant # "legacy" /\ l.by = "mounted" /\ SettlesLoad(l)
                /\ l.document \in valid)
            => (InstanceOf(l) \in live' /\ Bound')]_vars

\* The mount's load resolved while the component was mounted, and the host
\* handled its loaded notification.
C6_Witness ==
    \E s \in settled :
        /\ MountResolved(s)
        /\ ~s.torn
        /\ LoadedFor(s.id) # {}
        /\ Bound

(***************************************************************************)
(* C7                                                                      *)
(***************************************************************************)
\* C7: teardown with a load in flight issues an unbind at once; and a load
\* that resolves after teardown is not left bound: its Instance is discarded
\* by an unbind call made when it resolves.
C7_LateLoadDiscarded ==
    /\ [][(phase = "mounted" /\ phase' = "destroyed" /\ Loading)
            => (Len(calls') = Len(calls) + 1 /\ LastCall(calls').op = "unload")]_vars
    /\ [][\A l \in pending :
            (phase = "destroyed" /\ SettlesLoad(l) /\ l.document \in valid)
            => /\ l.id \notin LiveIds'
               /\ LoadedFor(l.id)' = {}
               /\ Len(calls') = Len(calls) + 1
               /\ LastCall(calls').op = "unload"]_vars

(***************************************************************************)
(* C8                                                                      *)
(***************************************************************************)
\* C8: every load call names the component's container and comes right after
\* an unload call for the same container.
C8_UnbindBeforeLoad ==
    \A k \in DOMAIN calls :
        calls[k].op = "load" =>
            /\ calls[k].container = Container
            /\ k > 1
            /\ calls[k - 1].op = "unload"
            /\ calls[k - 1].container = calls[k].container

(***************************************************************************)
(* C9                                                                      *)
(***************************************************************************)
\* C9: at the moment a load is issued no live Instance is bound to the
\* container. (The load call is the last statement of the handler that makes
\* it, so the state after the step is the state at the call.)
C9_NoLoadWhileLive ==
    [][IssuesLoad => LiveOn(Container)' = {}]_vars

(***************************************************************************)
(* C10                                                                     *)
(***************************************************************************)
\* C10: every load of PSPDFKitContainer that resolves while the component is
\* mounted, issued by the mount or by a document change, is followed by a
\* loaded notification carrying its Instance.
C10_EveryResolveNotifies ==
    \A s \in settled :
        (variant # "legacy" /\ s.outcome = "resolved" /\ ~s.torn) =>
            \E k \in DOMAIN emits :
                emits[k].event = "loaded" /\ emits[k].instance = s.id

(***************************************************************************)
(* C11                                                                     *)
(***************************************************************************)
\* The calls this step adds to the history.
NewCalls == (Len(calls) + 1)..Len(calls')

Teardown == phase = "mounted" /\ phase' = "destroyed"

\* C12: in every state the teardown hook issues an unload call for the
\* component's container.
C12_TeardownAlwaysUnbinds ==
    [][Teardown =>
          /\ Len(calls') = Len(calls) + 1
          /\ LastCall(calls').op = "unload"
          /\ LastCall(calls').container = Container]_vars

(***************************************************************************)
(* C13                                                                     *)
(***************************************************************************)
\* This step is the component's mounted hook.
Mounts == phase = "created" /\ phase' = "mounted"

\* This step is the component's watcher seeing a new DocumentReference.
DocumentChanges == phase = "mounted" /\ prop' # prop

\* The load calls this step adds to the history.
NewLoadCalls == {k \in NewCalls : calls'[k].op = "load"}

CreatedBlobs == {BlobUrl(n) : n \in 1..blobs}

\* C14: a file selection that creates a DocumentReference releases the
\* previous one if it was an object URL and makes the new, unreleased one the
\* active one; so every object URL created, except the active one, has been
\* released.
C14_StaleBlobsReleased ==
    /\ [](\A url \in CreatedBlobs : url # ActiveDocument => url \in revoked)
    /\ [][blobs' # blobs =>
            /\ blobs' = blobs + 1
            /\ ActiveDocument' = BlobUrl(blobs')
            /\ ActiveDocument' \notin revoked'
            /\ (ActiveDocument \in CreatedBlobs => ActiveDocument \in revoked')
            /\ (ActiveDocument \notin CreatedBlobs => revoked' = revoked)]_vars

\* Two files were picked in a row: the first object URL is released, the
\* second is the active DocumentReference.
C14_Witness ==
    /\ blobs = 2
    /\ ActiveDocument = BlobUrl(2)
    /\ BlobUrl(1) \in revoked
    /\ BlobUrl(2) \notin revoked

(***************************************************************************)
(* C15                                                                     *)
(***************************************************************************)
\* The update:error emissions of this step.
NewEmits == {emits'[k] : k \in (Len(emits) + 1)..Len(emits')}

\* C15: a step in which the legacy component emits update:error sets the
\* host's errorMsg to the emitted message when the host still listens and
\* changes nothing else of the host: the DocumentReference and the object
\* URLs stay, no load is issued, and the only unload call of the step is the
\* catch handler's own, made before the emission of a rejection.
C15_ErrorNotificationOnlySetsMessage ==
    [][\A e \in NewEmits : e.event = "update:error" =>
          /\ errorMsg' = IF e.delivered THEN e.message ELSE errorMsg
          /\ UNCHANGED <<documentUrl, pdfFile, prop, blobs, revoked, valid, phase>>
          /\ ~IssuesLoad
          /\ NewLoadCalls = {}
          /\ \A k \in NewCalls :
                /\ e.message # ""
                /\ calls'[k] = UnloadCall(SelectorTarget(LegacyContainer), LegacyContainer,
                                          LiveOn(LegacyContainer) # {})
          /\ Len(calls') <= Len(calls) + 1]_vars

\* The host shows the failure of a picked file, which is still its
\* DocumentReference.
C15_Witness ==
    /\ variant = "legacy"
    /\ phase = "mounted"
    /\ errorMsg # ""
    /\ IsBlob(documentUrl)
    /\ prop = documentUrl
    /\ \E k \in 1..Len(emits) : emits[k].delivered /\ emits[k].message = errorMsg

(***************************************************************************)
(* C16                                                                     *)
(***************************************************************************)
\* C16: a load leaves the set of loads in flight only by being settled by the
\* service; issuing a further load removes none, so a superseded load stays
\* in flight next to its successor.  Every load of a valid document resolves
\* whenever it settles, whatever was issued or settled meanwhile: its
\* Instance becomes live, and the legacy component stores it in _instance,
\* replacing whatever an earlier-resolving load stored.
C16_NoCancellation ==
    /\ [][\A l \in pending : l \notin pending' =>
             \E s \in settled' \ settled : s.id = l.id]_vars
    /\ [][IssuesLoad => pending \subseteq pending']_vars
    /\ [][\A l \in pending : (SettlesLoad(l) /\ l.document \in valid) =>
             /\ InstanceOf(l) \in live'
             /\ (variant = "legacy" => _instance' = l.id)]_vars

\* Load 2 superseded load 1 while load 1 was in flight, resolved first, and
\* load 1 resolved after it: the component holds the Instance of load 1.
C16_Witness ==
    /\ variant = "legacy"
    /\ pending = {}
    /\ _instance = 1
    /\ {1, 2} \subseteq LiveIds
    /\ \E i, j \in DOMAIN emits :
          /\ i < j
          /\ emits[i].of = 2 /\ emits[i].message = ""
          /\ emits[j].of = 1 /\ emits[j].message = ""

(***************************************************************************)
(* C17                                                                     *)
(***************************************************************************)
\* The rejection of load s has been handled, no load is in flight and none
\* was issued after s.
LastLoadFailed(s) ==
    /\ s.outcome = "rejected"
    /\ pending = {}
    /\ nextId = s.id + 1

\* C17: in every state in which the most recently issued load has been
\* rejected and handled and no load is in flight, no Instance is bound to the
\* container, and that load has left neither an Instance nor a loaded
\* notification.
C17_FailureLeavesContainerEmpty ==
    \A s \in settled : LastLoadFailed(s) =>
        /\ LiveOn(Container) = {}
        /\ s.id \notin LiveIds
        /\ LoadedFor(s.id) = {}

(***************************************************************************)
(* C18                                                                     *)
(***************************************************************************)
\* The update:error emissions made for load n.
EmissionsOf(n) ==
    {k \in DOMAIN emits : emits[k].event = "update:error" /\ emits[k].of = n}

\* C18: in the legacy component, under a service that settles every load,
\* every load in flight leads to a state with exactly one update:error
\* emission for it.  At all times a load in flight has none and a settled
\* load has exactly one, carrying the empty string if the load resolved and
\* the rejection's message if it rejected; an emission the host receives
\* becomes its errorMsg in the same step.
C18_OneErrorEmissionPerLoad ==
    /\ \A n \in LoadIds :
          (variant = "legacy" /\ n \in PendingIds) ~> (Cardinality(EmissionsOf(n)) = 1)
    /\ [](variant = "legacy" =>
            /\ \A n \in PendingIds : EmissionsOf(n) = {}
            /\ \A s \in settled :
                  /\ Cardinality(EmissionsOf(s.id)) = 1
                  /\ \A k \in EmissionsOf(s.id) :
                        emits[k].message = IF s.outcome = "resolved" THEN ""
                                           ELSE ErrorMessage(s)
            /\ Len(emits) = Cardinality(settled))
    /\ [][(variant = "legacy" /\ Len(emits') > Len(emits)) =>
            /\ Len(emits') = Len(emits) + 1
            /\ (LastCall(emits').delivered => errorMsg' = LastCall(emits').message)]_vars

\* A rejected load put its message into errorMsg and a later resolved load
\* cleared it.
C18_Witness ==
    /\ variant = "legacy"
    /\ errorMsg = ""
    /\ \E i, j \in DOMAIN emits :
          /\ i < j
          /\ emits[i].message # "" /\ emits[i].delivered
          /\ emits[j].message = "" /\ emits[j].delivered
          /\ emits[i].of # emits[j].of

(***************************************************************************)
(* C19                                                                     *)
(***************************************************************************)
\* The PSPDFKit.unload calls of this step.
NewUnloadCalls == {k \in NewCalls : calls'[k].op = "unload"}

\* The legacy component runs its unload() in this step: the documentUrl
\* watcher or beforeDestroy.
LegacyUnloads == variant = "legacy" /\ (DocumentChanges \/ Teardown)

\* C19: a step of the legacy component that runs unload() makes exactly one
\* PSPDFKit.unload call, targeting the stored Instance, when _instance is
\* set, and leaves _instance null and that Instance no longer live; when
\* _instance is null it makes no PSPDFKit.unload call and changes neither
\* _instance nor the live Instances.  _instance stays null until a load
\* resolves, so a repeated unload() does nothing.
C19_GuardedUnload ==
    /\ [][LegacyUnloads =>
            /\ _instance' = NoInstance
            /\ IF _instance # NoInstance
               THEN /\ \E k \in NewCalls : NewUnloadCalls = {k}
                    /\ \A k \in NewUnloadCalls :
                          /\ calls'[k].target = "instance"
                          /\ calls'[k].instance = _instance
                          /\ calls'[k].ret = (_instance \in LiveIds)
                    /\ live' = {i \in live : i.id # _instance}
               ELSE /\ NewUnloadCalls = {}
                    /\ live' = live]_vars
    /\ [][(variant = "legacy" /\ _instance = NoInstance /\ _instance' # NoInstance) =>
            \E l \in pending : SettlesLoad(l) /\ l.document \in valid /\ _instance' = l.id]_vars

\* unload() ran twice with no load resolution between: the watcher unloaded
\* the Instance of load 1 and issued load 2, and beforeDestroy ran while
\* load 2 was in flight and made no call.
C19_Witness ==
    /\ variant = "legacy"
    /\ phase = "destroyed"
    /\ _instance = NoInstance
    /\ 2 \in PendingIds
    /\ Len(calls) = 3
    /\ calls[2].op = "unload" /\ calls[2].target = "instance" /\ calls[2].instance = 1
    /\ calls[3].op = "load"

LoadCalls == {k \in DOMAIN calls : calls[k].op = "load"}

\* C22: the host's DocumentReference and the prop the component sees are
\* never empty, the DocumentReference is only ever replaced by a newly created
\* object URL, and no load call carries an empty document.  Given an empty
\* value, the body of the pdfFile watcher of either variant makes no call and
\* leaves the service's loads and Instances as they are.
C22_NoEmptyLoad ==
    /\ [](/\ ActiveDocument # ""
          /\ prop # ""
          /\ \A k \in LoadCalls : calls[k].document # "")
    /\ [][ActiveDocument' # ActiveDocument =>
            /\ blobs' = blobs + 1
            /\ ActiveDocument' = BlobUrl(blobs')]_vars
    /\ [][(Vue2PdfFile("") \/ Vue3PdfFile("")) =>
            UNCHANGED <<live, pending, nextId, calls>>]_vars

\* The pdfFile watcher has loaded a picked file.
C22_Witness ==
    /\ variant # "legacy"
    /\ IsBlob(pdfFile)
    /\ prop = pdfFile
    /\ \E k \in LoadCalls : k > 1 /\ calls[k].document = pdfFile

(***************************************************************************)
(* C23                                                                     *)
(***************************************************************************)
\* Load b superseded load a, resolved while a was in flight, and the
\* rejection of a is the last thing that happened: its emission is the last
\* one, its unload the last call, and b is still the latest load issued.
StaleRejectionHandled(a, b) ==
    /\ variant = "legacy"
    /\ phase = "mounted"
    /\ a.id < b.id
    /\ nextId = b.id + 1
    /\ a.outcome = "rejected"
    /\ b.outcome = "resolved"
    /\ emits # <<>>
    /\ LastCall(emits).of = a.id
    /\ \E k \in DOMAIN emits : emits[k].of = b.id
    /\ LastCall(calls).op = "unload"
    /\ LastCall(calls).target = "selector"

\* C23: in the legacy component, once the rejection of a superseded load has
\* been handled, the Instance a newer load resolved with before that is still
\* bound to the container.
C23_StaleRejectionKeepsNewer ==
    \A a, b \in settled : StaleRejectionHandled(a, b) => b.id \in LiveIds

(***************************************************************************)
(* C24                                                                     *)
(***************************************************************************)
\* C24: in the legacy component a stored _instance is a live Instance bound
\* to the component's container, and every live Instance bound to the
\* container is the stored one.
C24_InstanceTracksBinding ==
    variant = "legacy" =>
        /\ (_instance # NoInstance =>
               \E i \in LiveOn(LegacyContainer) : i.id = _instance)
        /\ \A i \in LiveOn(LegacyContainer) : i.id = _instance

(***************************************************************************)
(* C25                                                                     *)
(***************************************************************************)
\* The load issued last has settled and nothing is in flight.
LatestSettled(s) == pending = {} /\ nextId = s.id + 1

\* C25: in the legacy example, while the component is mounted and once every
\* load has settled, the host's errorMsg is the empty string if the load
\* issued last resolved and that load's rejection message if it rejected.
C25_ErrorMsgOfLatestLoad ==
    variant = "legacy" =>
        \A s \in settled : (LatestSettled(s) /\ phase = "mounted") =>
            errorMsg = IF s.outcome = "resolved" THEN "" ELSE ErrorMessage(s)

(***************************************************************************)
(* C26                                                                     *)
(***************************************************************************)
\* C26: once no load is in flight, every Instance bound to the mounted
\* component's container was loaded from the active DocumentReference, and so
\* was the Instance the legacy component has stored.
C26_BoundToActiveDocument ==
    (pending = {} /\ phase = "mounted" /\ prop = ActiveDocument) =>
        /\ \A i \in LiveOn(Container) : i.document = ActiveDocument
        /\ (variant = "legacy" /\ _instance # NoInstance) =>
              \E s \in settled : s.id = _instance /\ s.document = ActiveDocument

(***************************************************************************)
(* C27                                                                     *)
(***************************************************************************)
\* The calls of loadPSPDFKit() on the container, as seen by the service.
UnloadThenLoad ==
    <<UnloadCall(SelectorTarget(PdfContainer), PdfContainer, LiveOn(PdfContainer) # {}),
      LoadCall([id |-> nextId, document |-> prop', container |-> PdfContainer])>>

\* What a step of the viewer component lets the service and the host observe,
\* told without reference to the variant: the calls it makes and the
\* notifications it emits, for each kind of event.
ObservedStep ==
    /\ (Mounts \/ DocumentChanges) =>
          calls' = calls \o UnloadThenLoad /\ emits' = emits
    /\ Teardown =>
          /\ calls' = Append(calls, UnloadCall(SelectorTarget(PdfContainer), PdfContainer,
                                               LiveOn(PdfContainer) # {}))
          /\ emits' = emits
    /\ \A l \in pending : SettlesLoad(l) =>
          /\ calls' = calls
          /\ emits' = IF l.by = "mounted" /\ l.document \in valid
                      THEN Append(emits, [event |-> "loaded", instance |-> l.id,
                                          message |-> "", of |-> l.id,
                                          delivered |-> phase # "destroyed"])
                      ELSE emits
    /\ (calls' # calls \/ emits' # emits) =>
          (Mounts \/ DocumentChanges \/ Teardown \/ \E l \in pending : SettlesLoad(l))

\* C27: the variant with beforeDestroy and the variant with beforeUnmount
\* accept the same events in the same states (mount, pdfFile change, teardown,
\* settling of a load in flight), and each event makes either of them issue
\* the same PSPDFKit.unload and PSPDFKit.load calls with the same arguments
\* and emit the same loaded notification.
C27_VariantsEquivalent ==
    /\ [][variant # "legacy" => ObservedStep]_vars
    /\ [](variant # "legacy" =>
            /\ (ENABLED (Vue2Mounted \/ Vue3Mounted)) <=> (phase = "created")
            /\ (ENABLED (Vue2WatchPdfFile \/ Vue3WatchPdfFile)) <=>
                  (phase = "mounted" /\ prop # pdfFile)
            /\ (ENABLED (Vue2BeforeDestroy \/ Vue3BeforeUnmount)) <=> (phase = "mounted")
            /\ \A l \in pending :
                  ENABLED (\/ Vue2MountedThen(l) \/ Vue2MountedRejected(l)
                           \/ Vue2WatchSettled(l)
                           \/ Vue3MountedThen(l) \/ Vue3MountedRejected(l)
                           \/ Vue3WatchSettled(l)))

\* The beforeUnmount variant was mounted, given another file, notified the
\* host of the mount's Instance and was unmounted.
C27_Witness ==
    /\ variant = "vue3"
    /\ phase = "destroyed"
    /\ Len(calls) = 5
    /\ LastCall(calls).op = "unload"
    /\ \E k \in DOMAIN emits : emits[k].event = "loaded" /\ emits[k].delivered

(***************************************************************************)
(* C28                                                                     *)
(***************************************************************************)
\* C28: a step in which no object URL is created, as when openDocument fails
\* for want of a file, leaves the host's state as it was: the active
\* DocumentReference keeps its value, nothing is released, and no call is
\* made to the viewer service by that step.
C28_FailedOpenChangesNothing ==
    [][blobs' = blobs => UNCHANGED hostVars]_vars

(***************************************************************************)
(* C21                                                                     *)
(***************************************************************************)
\* The entries console.error has logged for copy c.
LoggedFor(c) == {k \in DOMAIN console : console[k].copy = c}

\* C21: whatever fails, the script makes both ncp calls and both copies run
\* to their end and call back.  After the first call the second is always
\* possible, even if files of the first copy have failed by then.  A copy
\* whose callback has run is logged once, with its errors, exactly when it
\* had any; and a failure in one copy changes nothing of the other.
C21_CopiesIndependent ==
    /\ (scriptPc = 0) ~> (scriptPc = 2 /\ called = Copies /\ \A c \in Copies : todo[c] = {})
    /\ [](scriptPc = 1 => ENABLED ScriptCopyEntry)
    /\ [](\A c \in Copies :
            /\ Cardinality(LoggedFor(c)) = IF c \in called /\ errs[c] # {} THEN 1 ELSE 0
            /\ \A k \in LoggedFor(c) : console[k].err = errs[c])
    /\ [][\A c \in Copies : errs'[c] # errs[c] =>
            /\ scriptPc' = scriptPc
            /\ called' = called
            /\ console' = console
            /\ \A d \in Copies \ {c} : todo'[d] = todo[d] /\ errs'[d] = errs[d]]_vars

\* A file of the library directory failed before the second ncp call; the
\* entry script was copied all the same, and only the failure is on the
\* console.
C21_Witness ==
    /\ scriptPc = 2
    /\ called = Copies
    /\ errs[LibCopy] # {}
    /\ errs[EntryCopy] = {}
    /\ todo[EntryCopy] = {}
    /\ Len(console) = 1
    /\ console[1].copy = LibCopy

(***************************************************************************)
(* C29                                                                     *)
(***************************************************************************)
\* n mod 10 and n mod 100 of the integer a number holds.
Mod10(l) == IF l.zeros >= 1 THEN 0 ELSE l.mant % 10

Mod100(l) ==
    IF l.zeros >= 2 THEN 0
    ELSE IF l.zeros = 1 THEN (l.mant % 10) * 10
    ELSE l.mant % 100

\* C29: for every non-negative integer the function returns, for cardinals,
\* "one" exactly when n = 1, "few" exactly when n mod 10 is in 2..4 and
\* n mod 100 is not in 12..14, and "many" otherwise, never "other"; for
\* ordinals it returns "other".
C29_PolishPluralRule ==
    category # "" =>
        IF ordinal THEN category = "other"
        ELSE /\ (category = "one") <=> IsOne(number)
             /\ (category = "few") <=>
                   (Mod10(number) \in 2..4 /\ Mod100(number) \notin 12..14)
             /\ category \in {"one", "few", "many"}

====
